---- MODULE Spec2Model ----
(***************************************************************************)
(* A model of the advizer rebalancing engine: the holdings table built    *)
(* from the accounts (portfolio.py), the framing strategies and their     *)
(* Context (framing.py), the per-account linear constraint, the objective *)
(* the derivation of transactions from the solver's result, the          *)
(* execution of transactions (Portfolio.execute), the reporting            *)
(* operations and the holdings property of an account (account.py).       *)
(*                                                                         *)
(* Numbers.  The program computes with floats.  Here every quantity is an  *)
(* exact rational <<n, d>> in lowest terms with d > 0, so that equality of *)
(* values is equality of pairs.  The constant _JITTER = 1e-10 is kept     *)
(* symbolic: a bound endpoint is [q |-> rational, j |-> k], which stands   *)
(* for q + k * _JITTER, and two endpoints compare first on q, then on j.  *)
(***************************************************************************)
EXTENDS Integers, Sequences, FiniteSets, TLC

VARIABLES
    accounts,     \* Portfolio._accounts: the accounts and their holdings
    df,           \* Portfolio._df: the holdings table
    _allocation,  \* Portfolio._allocation: value per asset class
    _net_value,   \* Portfolio._net_value
    executions,   \* the number of execute(inplace=True) calls made so far
    ret,          \* the last call made and what it returned
    _holdings,    \* Account._holdings of one account: a reference to a list
    lists         \* the lists of Investment objects that exist, by reference

(* The fields of the Portfolio object. *)
self == <<accounts, df, _allocation, _net_value>>

(* One Account object and the lists its callers hold. *)
account == <<_holdings, lists>>

vars == <<accounts, df, _allocation, _net_value, executions, ret, _holdings, lists>>

-----------------------------------------------------------------------------
(* Rational arithmetic *)

Abs(n) == IF n < 0 THEN -n ELSE n

RECURSIVE GCD(_, _)
GCD(a, b) == IF b = 0 THEN a ELSE GCD(b, a % b)

Norm(n, d) ==
    LET s == IF d < 0 THEN -1 ELSE 1
        g == GCD(Abs(n), Abs(d))
    IN  <<(s * n) \div g, (s * d) \div g>>

R(n) == <<n, 1>>

LCM(a, b) == (a \div GCD(a, b)) * b

RAdd(a, b) ==
    LET l == LCM(a[2], b[2])
    IN  Norm(a[1] * (l \div a[2]) + b[1] * (l \div b[2]), l)

RNeg(a) == <<-a[1], a[2]>>

RSub(a, b) == RAdd(a, RNeg(b))

RMul(a, b) ==
    LET g1 == GCD(Abs(a[1]), b[2])
        g2 == GCD(Abs(b[1]), a[2])
    IN  Norm((a[1] \div g1) * (b[1] \div g2), (a[2] \div g2) * (b[2] \div g1))

RDiv(a, b) == RMul(a, Norm(b[2], b[1]))

RLeq(a, b) ==
    LET l == LCM(a[2], b[2])
    IN  a[1] * (l \div a[2]) <= b[1] * (l \div b[2])

RLt(a, b) == RLeq(a, b) /\ a # b

RAbs(a) == <<Abs(a[1]), a[2]>>

RECURSIVE RSum(_, _)
RSum(f, S) ==
    IF S = {} THEN R(0)
    ELSE LET i == CHOOSE j \in S : TRUE
         IN  RAdd(f[i], RSum(f, S \ {i}))

-----------------------------------------------------------------------------
(* investment.py: asset classes, funds, investments *)

CASH == "CASH"

LOOKUP ==
    [ticker \in {"CRISX", "FSKAX", "CASH", "VNQ"} |->
        CASE ticker = "CRISX" -> "SMALL_CAP"
          [] ticker = "FSKAX" -> "CORE_US"
          [] ticker = "CASH"  -> CASH
          [] ticker = "VNQ"   -> "REAL_ESTATE"]

FundName ==
    [ticker \in {"CRISX", "FSKAX", "CASH", "VNQ"} |->
        CASE ticker = "CRISX" -> "Small Cap Value Fund Class Institutional"
          [] ticker = "FSKAX" -> "Fidelity Total Market Index"
          [] ticker = "CASH"  -> "Money Market"
          [] ticker = "VNQ"   -> "Vanguard Real Estate Index Fund"]

Investment(ticker_symbol, num_shares, share_price) ==
    [ticker_symbol |-> ticker_symbol,
     asset_class   |-> LOOKUP[ticker_symbol],
     name          |-> FundName[ticker_symbol],
     num_shares    |-> num_shares,
     share_price   |-> share_price]

InvestmentValue(holding) == RMul(holding.num_shares, holding.share_price)

Account(name, institution, is_taxable, holdings) ==
    [name |-> name, institution |-> institution,
     is_taxable |-> is_taxable, holdings |-> holdings]

-----------------------------------------------------------------------------
(* portfolio.py: the holdings table *)

RECURSIVE Flatten(_)
Flatten(accts) ==
    IF accts = <<>> THEN <<>>
    ELSE LET acc == Head(accts)
         IN  [i \in 1..Len(acc.holdings) |->
                 [account_name  |-> acc.name,
                  institution   |-> acc.institution,
                  fund_name     |-> acc.holdings[i].name,
                  asset_class   |-> acc.holdings[i].asset_class,
                  ticker_symbol |-> acc.holdings[i].ticker_symbol,
                  share_price   |-> acc.holdings[i].share_price,
                  num_shares    |-> acc.holdings[i].num_shares,
                  value         |-> InvestmentValue(acc.holdings[i])]]
             \o Flatten(Tail(accts))

_build_dataframe(accts) == Flatten(accts)

Rows(table) == 1..Len(table)

RowsOfAccount(table, account_name) ==
    {i \in Rows(table) : table[i].account_name = account_name}

Values(table) == [i \in Rows(table) |-> table[i].value]

-----------------------------------------------------------------------------
(* framing.py *)

JNum(q, j) == [q |-> q, j |-> j]

_JITTER == JNum(R(0), 1)

JLt(a, b) == RLt(a.q, b.q) \/ (a.q = b.q /\ a.j < b.j)

InList(x, list) == \E k \in 1..Len(list) : list[k] = x

(* Mutant of combine: the two branches exchanged. *)
combine_swapped(x0_taxable, x0_non_taxable, table, taxable) ==
    [holding \in Rows(table) |->
        IF InList(table[holding].account_name, taxable)
        THEN x0_non_taxable[holding]
        ELSE x0_taxable[holding]]

combine(x0_taxable, x0_non_taxable, table, taxable) ==
    [holding \in Rows(table) |->
        IF InList(table[holding].account_name, taxable)
        THEN x0_taxable[holding]
        ELSE x0_non_taxable[holding]]

_get_cash(table, account_name) ==
    RSum(Values(table),
         {i \in RowsOfAccount(table, account_name) : table[i].asset_class = CASH})

(* A call either returns a value or raises: error = "" means it returned. *)
Return(value) == [error |-> "", value |-> value]

Raise(error) == [error |-> error, value |-> <<>>]

Zeros(table) == [i \in Rows(table) |-> R(0)]

(* Series.idxmax: the first row holding the largest value; it raises         *)
(* ValueError on an empty selection.                                         *)
idxmax(table, rows) ==
    CHOOSE i \in rows :
        \A k \in rows : /\ RLeq(table[k].value, table[i].value)
                        /\ (table[k].value = table[i].value => i <= k)

(* Mutant of the loop of CashAllocationStrategy.initial_allocation: the     *)
(* cash is not divided by the share price.                                   *)
CashInitialForAccount_undivided(table, x0, acct) ==
    LET total_cash == _get_cash(table, acct)
        non_cash_holdings ==
            {i \in RowsOfAccount(table, acct) : table[i].asset_class # CASH}
        cash_holdings ==
            {i \in RowsOfAccount(table, acct) : table[i].asset_class = CASH}
    IN  IF RLt(R(0), total_cash)
        THEN IF non_cash_holdings = {}
             THEN Raise("ValueError")
             ELSE LET max_idx == idxmax(table, non_cash_holdings)
                  IN  Return([i \in Rows(table) |->
                          IF i \in cash_holdings THEN RNeg(table[i].value)
                          ELSE IF i = max_idx THEN total_cash
                               ELSE x0[i]])
        ELSE Return(x0)

(* One turn of the loop of CashAllocationStrategy.initial_allocation. *)
CashInitialForAccount(table, x0, acct) ==
    LET total_cash == _get_cash(table, acct)
        non_cash_holdings ==
            {i \in RowsOfAccount(table, acct) : table[i].asset_class # CASH}
        cash_holdings ==
            {i \in RowsOfAccount(table, acct) : table[i].asset_class = CASH}
    IN  IF RLt(R(0), total_cash)
        THEN IF non_cash_holdings = {}
             THEN Raise("ValueError")
             ELSE LET max_idx == idxmax(table, non_cash_holdings)
                  IN  Return([i \in Rows(table) |->
                          IF i \in cash_holdings THEN RNeg(table[i].value)
                          ELSE IF i = max_idx
                               THEN RDiv(total_cash, table[max_idx].share_price)
                               ELSE x0[i]])
        ELSE Return(x0)

RECURSIVE CashInitialLoop(_, _, _)
CashInitialLoop(table, x0, accts) ==
    IF accts = <<>> THEN Return(x0)
    ELSE LET step == CashInitialForAccount(table, x0, Head(accts))
         IN  IF step.error # "" THEN step
             ELSE CashInitialLoop(table, step.value, Tail(accts))

CashAllocationStrategy_initial_allocation(table, accts) ==
    CashInitialLoop(table, Zeros(table), accts)

(* Mutant of CashAllocationStrategy.bounds: the cash is not divided by the  *)
(* share price.                                                              *)
CashAllocationStrategy_bounds_undivided(table, accts) ==
    [holding \in Rows(table) |->
        IF InList(table[holding].account_name, accts)
        THEN IF table[holding].asset_class = CASH
             THEN <<JNum(RNeg(table[holding].value), 0),
                    JNum(RNeg(table[holding].value), 1)>>
             ELSE <<JNum(R(0), 0),
                    JNum(_get_cash(table, table[holding].account_name), 0)>>
        ELSE <<JNum(R(0), 0), JNum(R(0), 0)>>]

CashAllocationStrategy_bounds(table, accts) ==
    [holding \in Rows(table) |->
        IF InList(table[holding].account_name, accts)
        THEN IF table[holding].asset_class = CASH
             THEN <<JNum(RNeg(table[holding].value), 0),
                    JNum(RNeg(table[holding].value), 1)>>
             ELSE <<JNum(R(0), 0),
                    JNum(RDiv(_get_cash(table, table[holding].account_name),
                              table[holding].share_price), 0)>>
        ELSE <<JNum(R(0), 0), JNum(R(0), 0)>>]

RebalanceAllocationStrategy_initial_allocation(table, accts) ==
    Return(Zeros(table))

(* Mutant of RebalanceAllocationStrategy.bounds: every account is skipped,  *)
(* as if the test were len(holdings.index) >= 1.                            *)
RebalanceAllocationStrategy_bounds_skipping(table, accts) ==
    [holding \in Rows(table) |-> <<JNum(R(0), 0), _JITTER>>]

(* Mutant of RebalanceAllocationStrategy.bounds: the upper bound is the     *)
(* whole account value / share price.                                       *)
RebalanceAllocationStrategy_bounds_whole(table, accts) ==
    [holding \in Rows(table) |->
        LET holdings == RowsOfAccount(table, table[holding].account_name)
            account_value == RSum(Values(table), holdings)
        IN  IF InList(table[holding].account_name, accts)
               /\ ~(Cardinality(holdings) <= 1)
            THEN <<JNum(RNeg(table[holding].num_shares), 0),
                   JNum(RDiv(account_value, table[holding].share_price), 0)>>
            ELSE <<JNum(R(0), 0), _JITTER>>]

RebalanceAllocationStrategy_bounds(table, accts) ==
    [holding \in Rows(table) |->
        LET holdings == RowsOfAccount(table, table[holding].account_name)
            account_value == RSum(Values(table), holdings)
            available == RSub(account_value, table[holding].value)
        IN  IF InList(table[holding].account_name, accts)
               /\ ~(Cardinality(holdings) <= 1)
            THEN <<JNum(RNeg(table[holding].num_shares), 0),
                   JNum(RDiv(available, table[holding].share_price), 0)>>
            ELSE <<JNum(R(0), 0), _JITTER>>]

(* The Strategy interface: the two built-in variants, selected by name.     *)
Strategies == {"CashAllocationStrategy", "RebalanceAllocationStrategy"}

None == "None"

initial_allocation(strategy, table, accts) ==
    IF strategy = "CashAllocationStrategy"
    THEN CashAllocationStrategy_initial_allocation(table, accts)
    ELSE RebalanceAllocationStrategy_initial_allocation(table, accts)

bounds(strategy, table, accts) ==
    IF strategy = "CashAllocationStrategy"
    THEN CashAllocationStrategy_bounds(table, accts)
    ELSE RebalanceAllocationStrategy_bounds(table, accts)

(* Context *)
Context(taxable, non_taxable) == [taxable |-> taxable, non_taxable |-> non_taxable]

RECURSIVE NamesWhere(_, _)
NamesWhere(accts, flag) ==
    IF accts = <<>> THEN <<>>
    ELSE (IF Head(accts).is_taxable = flag THEN <<Head(accts).name>> ELSE <<>>)
         \o NamesWhere(Tail(accts), flag)

get_initial_allocation(ctx, table, accts) ==
    LET taxable == NamesWhere(accts, TRUE)
        non_taxable == NamesWhere(accts, FALSE)
        x0_taxable ==
            IF ctx.taxable # None /\ Len(taxable) > 0
            THEN initial_allocation(ctx.taxable, table, taxable)
            ELSE Return(Zeros(table))
        x0_non_taxable ==
            IF ctx.non_taxable # None /\ Len(non_taxable) > 0
            THEN initial_allocation(ctx.non_taxable, table, non_taxable)
            ELSE Return(Zeros(table))
    IN  IF x0_taxable.error # "" THEN x0_taxable
        ELSE IF x0_non_taxable.error # "" THEN x0_non_taxable
        ELSE Return(combine(x0_taxable.value, x0_non_taxable.value, table, taxable))

get_allocation_bounds(ctx, table, accts) ==
    LET taxable == NamesWhere(accts, TRUE)
        non_taxable == NamesWhere(accts, FALSE)
        default == [i \in Rows(table) |-> <<JNum(R(0), 0), _JITTER>>]
        bounds_taxable ==
            IF ctx.taxable # None /\ Len(taxable) > 0
            THEN bounds(ctx.taxable, table, taxable)
            ELSE default
        bounds_non_taxable ==
            IF ctx.non_taxable # None /\ Len(non_taxable) > 0
            THEN bounds(ctx.non_taxable, table, non_taxable)
            ELSE default
    IN  combine(bounds_taxable, bounds_non_taxable, table, taxable)


-----------------------------------------------------------------------------
(* portfolio.py: reporting helpers and the objective *)

(* Float division: 0/0 is NaN and x/0 is infinite; neither raises.          *)
NaN == <<0, 0>>

Inf == <<1, 0>>

FDiv(a, b) == IF b = R(0) THEN (IF a = R(0) THEN NaN ELSE Inf) ELSE RDiv(a, b)

AssetClasses(table) == {table[i].asset_class : i \in Rows(table)}

ClassValue(table, asset_class) ==
    RSum(Values(table), {i \in Rows(table) : table[i].asset_class = asset_class})

net_value(table) == RSum(Values(table), Rows(table))

(* Mutant of _get_percentage_allocation: the percentage is the fraction. *)
_get_percentage_allocation_unscaled(current_df) ==
    [asset_class \in AssetClasses(current_df) |->
        LET value == ClassValue(current_df, asset_class)
            fraction == FDiv(value, net_value(current_df))
        IN  [value |-> value, fraction |-> fraction, percentage |-> fraction]]

_get_percentage_allocation(current_df) ==
    [asset_class \in AssetClasses(current_df) |->
        LET value == ClassValue(current_df, asset_class)
            fraction == FDiv(value, net_value(current_df))
        IN  [value |-> value,
             fraction |-> fraction,
             percentage |-> IF fraction[2] = 0 THEN fraction
                            ELSE RMul(fraction, R(100))]]

(* Mutant of _get_diff_from_target: a class the target does not name is    *)
(* left out.                                                                 *)
_get_diff_from_target_of_target(current_df, target) ==
    LET current_allocation == _get_percentage_allocation(current_df)
    IN  [asset_class \in DOMAIN target |->
            IF asset_class \in DOMAIN current_allocation
                  /\ current_allocation[asset_class].percentage[2] # 0
            THEN RSub(target[asset_class], current_allocation[asset_class].percentage)
            ELSE target[asset_class]]

(* Series.sub(..., fill_value=0): a label missing on one side, or NaN on    *)
(* one side only, counts as 0 there; NaN on both sides stays NaN.           *)
_get_diff_from_target(current_df, target) ==
    LET current_allocation == _get_percentage_allocation(current_df)
    IN  [asset_class \in (DOMAIN target) \cup (DOMAIN current_allocation) |->
            LET here == asset_class \in DOMAIN current_allocation
                pct == IF here THEN current_allocation[asset_class].percentage
                       ELSE NaN
            IN  IF asset_class \in DOMAIN target
                THEN IF pct = NaN THEN target[asset_class]
                     ELSE IF pct = Inf THEN Inf
                     ELSE RSub(target[asset_class], pct)
                ELSE IF pct[2] = 0 THEN pct
                     ELSE RSub(R(0), pct)]

(* Mutant of _get_rmse: the squared differences are summed, not averaged. *)
_get_rmse_total(current_df, target) ==
    LET difference_series == _get_diff_from_target(current_df, target)
        finite == {c \in DOMAIN difference_series : difference_series[c][2] # 0}
        square_error == [c \in finite |->
                            RMul(difference_series[c], difference_series[c])]
    IN  IF \E c \in DOMAIN difference_series : difference_series[c] = Inf
        THEN Inf
        ELSE RSum(square_error, finite)

(* _get_rmse returns sqrt(m) of the mean m of the squared differences (the  *)
(* sum skips NaN).  The square root is increasing, so the model keeps m:    *)
(* two RMSEs compare as their squares do, and the RMSE is 0 iff m is.       *)
_get_rmse(current_df, target) ==
    LET rmse(difference_series) ==
            LET finite == {c \in DOMAIN difference_series :
                              difference_series[c][2] # 0}
                square_error == [c \in finite |->
                                    RMul(difference_series[c], difference_series[c])]
            IN  IF \E c \in DOMAIN difference_series : difference_series[c] = Inf
                THEN Inf
                ELSE FDiv(RSum(square_error, finite),
                          R(Cardinality(DOMAIN difference_series)))
    IN  rmse(_get_diff_from_target(current_df, target))

(* Mutant of _objective_fn: the trade vector is not added to the holdings. *)
_objective_fn_without_x(initial, target, x) == _get_rmse(initial, target)

_objective_fn(initial, target, x) ==
    LET results ==
            [i \in Rows(initial) |->
                LET num_shares == RAdd(initial[i].num_shares, x[i])
                IN  [initial[i] EXCEPT
                        !.num_shares = num_shares,
                        !.value = RMul(num_shares, initial[i].share_price)]]
    IN  _get_rmse(results, target)

(* Order on objective values: NaN and the infinite value are never below a  *)
(* finite one.                                                               *)
ObjLeq(a, b) == IF b[2] = 0 THEN TRUE ELSE IF a[2] = 0 THEN FALSE ELSE RLeq(a, b)

-----------------------------------------------------------------------------
(* portfolio.py: Portfolio._get_linear_constraint *)

(* account_number reached at row_number: the number of rows up to it whose  *)
(* account differs from the account of the row before.                      *)
account_number(table, row_number) ==
    Cardinality({r \in 2..row_number :
                    table[r].account_name # table[r - 1].account_name})

_get_linear_constraint(table) ==
    IF Len(table) = 0
    THEN Raise("IndexError")
    ELSE LET num_accounts ==
                 Cardinality({table[i].account_name : i \in Rows(table)})
         IN  Return(
               [coefficients |->
                   [a \in 1..(account_number(table, Len(table)) + 1) |->
                       [row_number \in Rows(table) |->
                           IF account_number(table, row_number) = a - 1
                           THEN table[row_number].share_price
                           ELSE R(0)]],
                bound |-> [a \in 1..num_accounts |-> R(0)]])


-----------------------------------------------------------------------------
(* scipy.optimize.minimize(method='SLSQP') as _optimize_allocation uses it. *)
(* The solver is a library: the model keeps its contract.  A successful run *)
(* returns a trade vector inside the bounds that satisfies the equality     *)
(* constraints and minimises the objective; a run may also end without      *)
(* success.  Trade sizes are searched on a grid: the two ends of each       *)
(* interval and the multiples of the table's lot in between.                *)

Floor(a) == a[1] \div a[2]

Ceil(a) == -((-a[1]) \div a[2])

(* The lot of a table: the largest rational of which every share count is   *)
(* a whole multiple (1 when every count is 0).                              *)
RECURSIVE GCDOf(_, _)
GCDOf(f, S) ==
    IF S = {} THEN 0
    ELSE LET i == CHOOSE j \in S : TRUE IN GCD(f[i], GCDOf(f, S \ {i}))

RECURSIVE LCMOf(_, _)
LCMOf(f, S) ==
    IF S = {} THEN 1
    ELSE LET i == CHOOSE j \in S : TRUE IN LCM(f[i], LCMOf(f, S \ {i}))

Lot(table) ==
    LET den == LCMOf([i \in Rows(table) |-> table[i].num_shares[2]], Rows(table))
        num == GCDOf([i \in Rows(table) |->
                        Abs(table[i].num_shares[1]) * (den \div table[i].num_shares[2])],
                     Rows(table))
    IN  IF num = 0 THEN R(1) ELSE Norm(num, den)

CandidateValues(bound, lot) ==
    {bound[1].q, bound[2].q}
    \cup {RMul(R(k), lot) :
            k \in Ceil(RDiv(bound[1].q, lot))..Floor(RDiv(bound[2].q, lot))}

(* The constraint rows hold for x (lower and upper bound are both 0). *)
Satisfies(cons, x, rows) ==
    \A a \in rows :
        RSum([i \in 1..Len(x) |-> RMul(cons.coefficients[a][i], x[i])],
             1..Len(x)) = R(0)

(* The constraint rows whose last non-zero column is column n. *)
ClosedAt(cons, n) ==
    {a \in 1..Len(cons.coefficients) :
        /\ cons.coefficients[a][n] # R(0)
        /\ \A i \in (n + 1)..Len(cons.coefficients[a]) :
              cons.coefficients[a][i] = R(0)}

(* The grid vectors of length n that can still be extended to a vector      *)
(* satisfying the constraints: a row is tested as soon as its last column   *)
(* is filled.                                                                *)
RECURSIVE Vectors(_, _, _, _)
Vectors(bnds, cons, lot, n) ==
    IF n = 0 THEN {<<>>}
    ELSE {y \in {Append(x, v) : x \in Vectors(bnds, cons, lot, n - 1),
                                v \in CandidateValues(bnds[n], lot)} :
            Satisfies(cons, y, ClosedAt(cons, n))}

(* Below, a value that is used many times is bound once with \in {...}     *)
(* rather than named with LET, so that it is computed a single time.        *)
Feasible(table, bnds, cons) ==
    UNION {{x \in Vectors(bnds, cons, lot, Len(table)) :
                Satisfies(cons, x, 1..Len(cons.coefficients))} :
           lot \in {Lot(table)}}

Scored(table, target, feasible) ==
    {[x |-> x, objective |-> _objective_fn(table, target, x)] : x \in feasible}

(* Mutant of the solver: any feasible vector is returned. *)
Minimisers_feasible(table, target, bnds, cons) == Feasible(table, bnds, cons)

Minimisers(table, target, bnds, cons) ==
    UNION {{s.x : s \in {s \in scored :
                            \A t \in scored : ObjLeq(s.objective, t.objective)}} :
           scored \in {Scored(table, target, Feasible(table, bnds, cons))}}

minimize(table, target, bnds, cons) ==
    {[success |-> FALSE, message |-> "Iteration limit reached", x |-> <<>>]}
    \cup {[success |-> TRUE, message |-> "Optimization terminated successfully", x |-> x] :
            x \in Minimisers(table, target, bnds, cons)}

-----------------------------------------------------------------------------
(* portfolio.py: Transaction and Portfolio._optimize_allocation *)

Transaction(institution, account_name, fund_name, num_shares) ==
    [institution |-> institution, account_name |-> account_name,
     fund_name |-> fund_name, num_shares |-> num_shares]

(* round(x, 2) of a numpy float: x * 100 to the nearest integer, a tie to   *)
(* the even one, then / 100.                                                 *)
round(x) ==
    LET y == RMul(x, R(100))
        f == Floor(y)
        r == RSub(y, R(f))
        n == IF RLt(r, <<1, 2>>) THEN f
             ELSE IF RLt(<<1, 2>>, r) THEN f + 1
             ELSE IF f % 2 = 0 THEN f ELSE f + 1
    IN  Norm(n, 100)

Materiality == <<1, 100>>

(* Mutant of the materiality test: the threshold is 0.001. *)
IsMaterial_milli(x) == RLt(<<1, 1000>>, RAbs(x))

IsMaterial(x) == RLt(Materiality, RAbs(x))

(* Mutant of the loop that emits transactions: each names the first row. *)
RECURSIVE Emit_first_row(_, _, _)
Emit_first_row(table, x, holding) ==
    IF holding > Len(x) THEN <<>>
    ELSE (IF IsMaterial(x[holding])
          THEN <<Transaction(table[1].institution,
                             table[1].account_name,
                             table[1].fund_name,
                             round(x[holding]))>>
          ELSE <<>>)
         \o Emit_first_row(table, x, holding + 1)

RECURSIVE Emit(_, _, _)
Emit(table, x, holding) ==
    IF holding > Len(x) THEN <<>>
    ELSE (IF IsMaterial(x[holding])
          THEN <<Transaction(table[holding].institution,
                             table[holding].account_name,
                             table[holding].fund_name,
                             round(x[holding]))>>
          ELSE <<>>)
         \o Emit(table, x, holding + 1)

Transactions(table, x) == Emit(table, x, 1)

(* One run of _optimize_allocation, as the record of what it computed and   *)
(* how it ended: error = "" and the transaction list, or the exception.     *)
NoSolution == [success |-> FALSE, message |-> "", x |-> <<>>]

(* raise ResultError(f"Cash allocation failed: {solution.message}") *)
ResultError(message) == "ResultError: Cash allocation failed: " \o message

Run(bnds, x0, cons, solution, error, result) ==
    [bnds |-> bnds, x0 |-> x0, cons |-> cons, solution |-> solution,
     error |-> error, result |-> result]

(* Mutant of the result handling: when the solver fails, the initial guess  *)
(* is turned into transactions instead.                                      *)
Outcomes_fallback(table, target, bnds, x0, cons) ==
    IF x0.error # ""
    THEN {Run(bnds, x0, Raise(""), NoSolution, x0.error, <<>>)}
    ELSE IF cons.error # ""
    THEN {Run(bnds, x0, cons, NoSolution, cons.error, <<>>)}
    ELSE {Run(bnds, x0, cons, solution, "",
              Transactions(table, IF solution.success THEN solution.x ELSE x0.value)) :
            solution \in minimize(table, target, bnds, cons.value)}

Outcomes(table, target, bnds, x0, cons) ==
    IF x0.error # ""
    THEN {Run(bnds, x0, Raise(""), NoSolution, x0.error, <<>>)}
    ELSE IF cons.error # ""
    THEN {Run(bnds, x0, cons, NoSolution, cons.error, <<>>)}
    ELSE {IF solution.success
          THEN Run(bnds, x0, cons, solution, "", Transactions(table, solution.x))
          ELSE Run(bnds, x0, cons, solution, ResultError(solution.message), <<>>) :
            solution \in minimize(table, target, bnds, cons.value)}

_optimize_allocation(accts, table, framing_context, target) ==
    UNION {Outcomes(table, target, bnds, x0, cons) :
             bnds \in {get_allocation_bounds(framing_context, table, accts)},
             x0 \in {get_initial_allocation(framing_context, table, accts)},
             cons \in {_get_linear_constraint(table)}}

(* Mutant of the Context of allocate_cash: it also rebalances. *)
AllocateCashContext_rebalancing ==
    Context("CashAllocationStrategy", "RebalanceAllocationStrategy")

AllocateCashContext == Context("CashAllocationStrategy", None)

TuneContext == Context("CashAllocationStrategy", "RebalanceAllocationStrategy")

allocate_cash(accts, table, target) ==
    _optimize_allocation(accts, table, AllocateCashContext, target)

tune(accts, table, target) ==
    _optimize_allocation(accts, table, TuneContext, target)


-----------------------------------------------------------------------------
(* portfolio.py: the Portfolio object, its reporting operations, execute *)

get_allocation_by_asset_class(table) ==
    [asset_class \in AssetClasses(table) |-> ClassValue(table, asset_class)]

get_allocation_by_institution(table) ==
    [institution \in {table[i].institution : i \in Rows(table)} |->
        RSum(Values(table), {i \in Rows(table) : table[i].institution = institution})]

get_difference_from_target(table, target) == _get_diff_from_target(table, target)

get_percentage_allocation(table) == _get_percentage_allocation(table)

(* What Portfolio(accts) holds once __init__ has called _build_dataframe.   *)
Portfolio(accts) ==
    [accounts    |-> accts,
     df          |-> _build_dataframe(accts),
     _allocation |-> get_allocation_by_asset_class(_build_dataframe(accts)),
     _net_value  |-> net_value(_build_dataframe(accts))]

(* Mutant of transact_map: the deltas written for a key are summed. *)
transact_map_summed(transactions, account_name, fund_name) ==
    RSum([k \in 1..Len(transactions) |-> transactions[k].num_shares],
         {k \in 1..Len(transactions) :
             /\ transactions[k].account_name = account_name
             /\ transactions[k].fund_name = fund_name})

(* Mutant of transact_map: the first transaction written for a key stays. *)
transact_map_first(transactions, account_name, fund_name) ==
    LET written == {k \in 1..Len(transactions) :
                       /\ transactions[k].account_name = account_name
                       /\ transactions[k].fund_name = fund_name}
    IN  IF written = {} THEN R(0)
        ELSE transactions[CHOOSE k \in written : \A m \in written : k <= m].num_shares

(* transact_map[account_name][fund_name] once the loop over the             *)
(* transactions is done: each transaction overwrites the entry of its key,  *)
(* and a key that was never written reads as the default 0.0.               *)
transact_map(transactions, account_name, fund_name) ==
    LET written == {k \in 1..Len(transactions) :
                       /\ transactions[k].account_name = account_name
                       /\ transactions[k].fund_name = fund_name}
    IN  IF written = {} THEN R(0)
        ELSE transactions[CHOOSE k \in written : \A m \in written : m <= k].num_shares

(* A reference to a list of accounts: the accounts, and whether the list is *)
(* the object self._accounts or another one.                                 *)
Reference(account_list, is_self) == [account_list |-> account_list, is_self |-> is_self]

(* Mutant of copy.deepcopy: the same object is handed back. *)
deepcopy_shared(account_list) == Reference(account_list, TRUE)

deepcopy(account_list) == Reference(account_list, FALSE)

(* Mutant of the loop of execute: the mapped delta is subtracted. *)
Executed_subtracting(accnt, transactions) ==
    [accnt EXCEPT !.holdings =
        [h \in 1..Len(accnt.holdings) |->
            [accnt.holdings[h] EXCEPT !.num_shares =
                RSub(accnt.holdings[h].num_shares,
                     transact_map(transactions, accnt.name, accnt.holdings[h].name))]]]

(* The body of the loop of execute for one account: a copy of its holdings  *)
(* with the mapped delta added to each, set back as the account's holdings. *)
Executed(accnt, transactions) ==
    [accnt EXCEPT !.holdings =
        [h \in 1..Len(accnt.holdings) |->
            [accnt.holdings[h] EXCEPT !.num_shares =
                RAdd(accnt.holdings[h].num_shares,
                     transact_map(transactions, accnt.name, accnt.holdings[h].name))]]]

(* execute on the portfolio with accounts accts: the reference it worked    *)
(* on, now holding the updated accounts.                                     *)
execute(accts, transactions, inplace) ==
    LET account_list == IF inplace THEN Reference(accts, TRUE) ELSE deepcopy(accts)
    IN  Reference([k \in 1..Len(account_list.account_list) |->
                      Executed(account_list.account_list[k], transactions)],
                  account_list.is_self)

-----------------------------------------------------------------------------
(* The portfolios and targets the model starts from *)

MaxShares == 1

FundShareCounts == {R(n) : n \in 0..MaxShares}

CashShareCounts == {R(0), R(10)}

Fund(ticker) == {Investment(ticker, n, R(10)) : n \in FundShareCounts}

Cash == {Investment("CASH", n, R(1)) : n \in CashShareCounts}

(* Holdings of the first account: none, one fund, cash only, two funds, or  *)
(* a fund and cash.                                                          *)
FirstHoldings ==
    {<<>>}
    \cup {<<h>> : h \in Fund("CRISX") \cup Fund("FSKAX") \cup Cash}
    \cup {<<h, k>> : h \in Fund("CRISX"), k \in Fund("FSKAX") \cup Cash}
    \cup {<<h, k>> : h \in Fund("FSKAX"), k \in Cash}

SecondHoldings ==
    {<<>>}
    \cup {<<h>> : h \in Fund("VNQ")}
    \cup {<<h, k>> : h \in Fund("VNQ"), k \in Fund("FSKAX") \cup Cash}

FirstAccounts ==
    {Account("ACME 401(K) SAVINGS PLAN", "Fidelity", t, h) :
        t \in BOOLEAN, h \in FirstHoldings}

SecondAccounts ==
    {Account("INDIVIDUAL IRA", "Vanguard", t, h) :
        t \in BOOLEAN, h \in SecondHoldings}

(* The portfolio of PortfolioTest.setUp. *)
TestPortfolio ==
    <<Account("ACME 401(K) SAVINGS PLAN", "Fidelity", TRUE,
              <<Investment("CRISX", R(500), R(10)),
                Investment("FSKAX", R(1000), R(10)),
                Investment("CASH", R(5000), R(1))>>),
      Account("INDIVIDUAL IRA", "Vanguard", FALSE,
              <<Investment("VNQ", R(2000), R(10))>>)>>

(* The portfolio of PortfolioTest.test_tune. *)
TestTunePortfolio ==
    <<Account("INDIVIDUAL IRA", "Vanguard", FALSE,
              <<Investment("CRISX", R(3000), R(10)),
                Investment("FSKAX", R(2000), R(10)),
                Investment("VNQ", R(3000), R(10))>>)>>

(* Two taxable accounts whose cash buys 0.009 and 0.011 share of a fund. *)
SmallCashPortfolio ==
    <<Account("ACME 401(K) SAVINGS PLAN", "Fidelity", TRUE,
              <<Investment("CRISX", R(0), R(10)),
                Investment("CASH", <<9, 100>>, R(1))>>),
      Account("INDIVIDUAL IRA", "Vanguard", TRUE,
              <<Investment("VNQ", R(0), R(10)),
                Investment("CASH", <<11, 100>>, R(1))>>)>>

(* A taxable account whose cash holding is priced at 2 a share. *)
PricedCashPortfolio ==
    <<Account("ACME 401(K) SAVINGS PLAN", "Fidelity", TRUE,
              <<Investment("CRISX", R(1), R(10)),
                Investment("FSKAX", R(1), R(10)),
                Investment("CASH", R(10), R(2))>>)>>

(* A taxable account whose cash buys 0.016 share of its fund. *)
RoundedUpPortfolio ==
    <<Account("ACME 401(K) SAVINGS PLAN", "Fidelity", TRUE,
              <<Investment("CRISX", R(0), R(10)),
                Investment("CASH", <<4, 25>>, R(1))>>)>>

Portfolios ==
    {<<>>}
    \cup {<<a>> : a \in FirstAccounts}
    \cup {<<a, b>> : a \in FirstAccounts, b \in SecondAccounts}
    \cup {TestPortfolio, TestTunePortfolio, SmallCashPortfolio, PricedCashPortfolio,
          RoundedUpPortfolio}

(* The target of the tests, and a target that keeps half in cash. *)
TestTarget ==
    [c \in {"CORE_US", "SMALL_CAP", "REAL_ESTATE"} |->
        IF c = "REAL_ESTATE" THEN R(50) ELSE R(25)]

CashTarget == [c \in {"CORE_US", CASH} |-> R(50)]

Targets == {TestTarget, CashTarget}

Contexts ==
    {Context(t, n) : t \in Strategies \cup {None}, n \in Strategies \cup {None}}

MaxExecutes == 1

(* Transactions as a caller writes them, in whole lots of the table: for a  *)
(* fund the first account may hold, for a fund it never holds, and two for  *)
(* the same holding of the second account.                                   *)
CallerTransactions(lot) ==
    <<Transaction("Fidelity", "ACME 401(K) SAVINGS PLAN",
                  "Fidelity Total Market Index", lot),
      Transaction("Fidelity", "ACME 401(K) SAVINGS PLAN",
                  "Vanguard Real Estate Index Fund", lot),
      Transaction("Vanguard", "INDIVIDUAL IRA",
                  "Vanguard Real Estate Index Fund", RMul(R(2), lot)),
      Transaction("Vanguard", "INDIVIDUAL IRA",
                  "Vanguard Real Estate Index Fund", lot)>>

TransactionLists(table) == {CallerTransactions(Lot(table))}

(* The lists of account names a strategy is called with: the names of any   *)
(* of the portfolio's accounts, in portfolio order.                          *)
RECURSIVE NamesIn(_, _, _)
NamesIn(accts, chosen, k) ==
    IF k > Len(accts) THEN <<>>
    ELSE (IF k \in chosen THEN <<accts[k].name>> ELSE <<>>)
         \o NamesIn(accts, chosen, k + 1)

NameLists(accts) == {NamesIn(accts, chosen, 1) : chosen \in SUBSET (1..Len(accts))}

-----------------------------------------------------------------------------
(* The state machine: a portfolio and the last call made on it *)

Call(op, arg, out) == [op |-> op, arg |-> arg, out |-> out]

(* No call is pending: the portfolio was just built, or the caller has let  *)
(* go of what the last call returned.                                        *)
NoCall == Call("", <<>>, <<>>)

(* The fields of self, as a record. *)
Self == [accounts |-> accounts, df |-> df,
         _allocation |-> _allocation, _net_value |-> _net_value]

(* Portfolio(accounts) for one of the portfolios; the Account object of the *)
(* other part of the model is left alone.                                    *)
Init ==
    /\ accounts \in Portfolios
    /\ df = Portfolio(accounts).df
    /\ _allocation = Portfolio(accounts)._allocation
    /\ _net_value = Portfolio(accounts)._net_value
    /\ executions = 0
    /\ ret = NoCall
    /\ _holdings = 1
    /\ lists = <<<<>>>>

(* Mutant of allocate_cash: the objective works on the table itself, which *)
(* is left holding the last candidate.                                       *)
AllocateCash_on_the_table ==
    /\ ret = NoCall
    /\ \E target \in Targets :
         \E run \in allocate_cash(accounts, df, target) :
            /\ ret' = Call("allocate_cash", target, run)
            /\ df' = IF run.error = ""
                     THEN [i \in Rows(df) |->
                             [df[i] EXCEPT !.num_shares = RAdd(@, run.solution.x[i])]]
                     ELSE df
    /\ UNCHANGED <<accounts, _allocation, _net_value, executions, account>>

AllocateCash ==
    /\ ret = NoCall
    /\ \E target \in Targets :
         \E run \in allocate_cash(accounts, df, target) :
            ret' = Call("allocate_cash", target, run)
    /\ UNCHANGED <<self, executions, account>>

Tune ==
    /\ ret = NoCall
    /\ \E target \in Targets :
         \E run \in tune(accounts, df, target) :
            ret' = Call("tune", target, run)
    /\ UNCHANGED <<self, executions, account>>

StrategyInitialAllocation ==
    /\ ret = NoCall
    /\ \E strategy \in Strategies, names \in NameLists(accounts) :
         ret' = Call("initial_allocation", [strategy |-> strategy, accounts |-> names],
                     initial_allocation(strategy, df, names))
    /\ UNCHANGED <<self, executions, account>>

StrategyBounds ==
    /\ ret = NoCall
    /\ \E strategy \in Strategies, names \in NameLists(accounts) :
         ret' = Call("bounds", [strategy |-> strategy, accounts |-> names],
                     bounds(strategy, df, names))
    /\ UNCHANGED <<self, executions, account>>

GetInitialAllocation ==
    /\ ret = NoCall
    /\ \E ctx \in Contexts :
         ret' = Call("get_initial_allocation", ctx,
                     get_initial_allocation(ctx, df, accounts))
    /\ UNCHANGED <<self, executions, account>>

GetAllocationBounds ==
    /\ ret = NoCall
    /\ \E ctx \in Contexts :
         ret' = Call("get_allocation_bounds", ctx,
                     get_allocation_bounds(ctx, df, accounts))
    /\ UNCHANGED <<self, executions, account>>

(* The trade vectors the objective is evaluated on here: the initial guess  *)
(* of allocate_cash (line 206 evaluates the objective on it), no trade, and *)
(* one lot bought or sold in a single row.                                   *)
TradeVectors(table, accts) ==
    {Zeros(table)}
    \cup {x0.value : x0 \in {x0 \in {get_initial_allocation(AllocateCashContext, table, accts)} :
                                x0.error = ""}}
    \cup {[i \in Rows(table) |-> IF i = k THEN d ELSE R(0)] :
            k \in Rows(table), d \in {Lot(table), RNeg(Lot(table))}}

ObjectiveFn ==
    /\ ret = NoCall
    /\ \E target \in Targets, x \in TradeVectors(df, accounts) :
          ret' = Call("_objective_fn", [target |-> target, x |-> x],
                      _objective_fn(df, target, x))
    /\ UNCHANGED <<self, executions, account>>

GetLinearConstraint ==
    /\ ret = NoCall
    /\ ret' = Call("_get_linear_constraint", <<>>, _get_linear_constraint(df))
    /\ UNCHANGED <<self, executions, account>>

GetAllocationByAssetClass ==
    /\ ret = NoCall
    /\ ret' = Call("get_allocation_by_asset_class", <<>>,
                   get_allocation_by_asset_class(df))
    /\ UNCHANGED <<self, executions, account>>

GetAllocationByInstitution ==
    /\ ret = NoCall
    /\ ret' = Call("get_allocation_by_institution", <<>>,
                   get_allocation_by_institution(df))
    /\ UNCHANGED <<self, executions, account>>

GetDifferenceFromTarget ==
    /\ ret = NoCall
    /\ \E target \in Targets :
          ret' = Call("get_difference_from_target", target,
                      get_difference_from_target(df, target))
    /\ UNCHANGED <<self, executions, account>>

GetPercentageAllocation ==
    /\ ret = NoCall
    /\ ret' = Call("get_percentage_allocation", <<>>, get_percentage_allocation(df))
    /\ UNCHANGED <<self, executions, account>>

(* Mutant of execute: in place, the derived fields are not rebuilt. *)
ExecuteCall_stale(transactions, inplace, origin) ==
    LET done == execute(accounts, transactions, inplace)
        arg  == [transactions |-> transactions, inplace |-> inplace,
                 origin |-> origin, before |-> Self, mutations |-> 0]
    IN  /\ accounts' = IF done.is_self THEN done.account_list ELSE accounts
        /\ UNCHANGED <<df, _allocation, _net_value>>
        /\ IF inplace
           THEN /\ executions' = executions + 1
                /\ ret' = Call("execute", arg,
                               [portfolio |-> [Self EXCEPT !.accounts = accounts'],
                                is_self |-> TRUE])
           ELSE /\ UNCHANGED executions
                /\ ret' = Call("execute", arg,
                               [portfolio |-> Portfolio(done.account_list),
                                is_self |-> done.is_self])
        /\ UNCHANGED account

(* self.execute(transactions, inplace); origin is the call whose result is  *)
(* executed, or "caller" when the caller wrote the transactions.            *)
(* The call record keeps self as it was before the call; what is returned   *)
(* is a portfolio, and whether its account list is the list of self.        *)
ExecuteCall(transactions, inplace, origin) ==
    LET done == execute(accounts, transactions, inplace)
        arg  == [transactions |-> transactions, inplace |-> inplace,
                 origin |-> origin, before |-> Self, mutations |-> 0]
    IN  /\ accounts' = IF done.is_self THEN done.account_list ELSE accounts
        /\ IF inplace
           THEN /\ df' = Portfolio(accounts').df
                /\ _allocation' = Portfolio(accounts')._allocation
                /\ _net_value' = Portfolio(accounts')._net_value
                /\ executions' = executions + 1
                /\ ret' = Call("execute", arg,
                               [portfolio |-> Portfolio(accounts'), is_self |-> TRUE])
           ELSE /\ UNCHANGED <<df, _allocation, _net_value, executions>>
                /\ ret' = Call("execute", arg,
                               [portfolio |-> Portfolio(done.account_list),
                                is_self |-> done.is_self])
        /\ UNCHANGED account

Execute ==
    /\ ret = NoCall
    /\ \E transactions \in TransactionLists(df), inplace \in BOOLEAN :
          /\ inplace => executions < MaxExecutes
          /\ ExecuteCall(transactions, inplace, Call("caller", <<>>, <<>>))

(* The transactions an optimisation returned are executed, as main does.    *)
ExecuteReturned ==
    /\ ret.op \in {"allocate_cash", "tune"}
    /\ ret.out.error = ""
    /\ \E inplace \in BOOLEAN :
          /\ inplace => executions < MaxExecutes
          /\ ExecuteCall(ret.out.result, inplace, ret)

(* The caller executes transactions, in place, on the portfolio that        *)
(* execute(inplace=False) returned.                                          *)
ExecuteOnReturned ==
    /\ ret.op = "execute"
    /\ ~ret.arg.inplace
    /\ ret.arg.mutations < MaxExecutes
    /\ \E transactions \in TransactionLists(ret.out.portfolio.df) :
          LET done == execute(ret.out.portfolio.accounts, transactions, TRUE)
          IN  /\ ret' = [ret EXCEPT !.arg.mutations = @ + 1,
                                    !.out.portfolio = Portfolio(done.account_list)]
              /\ accounts' = IF ret.out.is_self THEN done.account_list ELSE accounts
    /\ UNCHANGED <<df, _allocation, _net_value, executions, account>>

(* The caller is done with the value the last call returned. *)
Discard ==
    /\ ret # NoCall
    /\ ret' = NoCall
    /\ UNCHANGED <<self, executions, account>>

Next ==
    \/ AllocateCash
    \/ Tune
    \/ StrategyInitialAllocation
    \/ StrategyBounds
    \/ GetInitialAllocation
    \/ GetAllocationBounds
    \/ GetLinearConstraint
    \/ ObjectiveFn
    \/ GetAllocationByAssetClass
    \/ GetAllocationByInstitution
    \/ GetDifferenceFromTarget
    \/ GetPercentageAllocation
    \/ Discard

(* A caller that optimises and reports but never executes. *)
Spec == Init /\ [][Next]_vars

(* A caller that also executes transactions, on the portfolios of the tests *)
(* and on two-account portfolios: an index fund and cash in the first       *)
(* account, the real-estate fund with or without cash in the second.        *)
ExecutePortfolios ==
    {TestPortfolio, TestTunePortfolio, SmallCashPortfolio}
    \cup {<<Account("ACME 401(K) SAVINGS PLAN", "Fidelity", t, <<f, c>>),
            Account("INDIVIDUAL IRA", "Vanguard", u, h)>> :
            t \in BOOLEAN, f \in Fund("FSKAX"), c \in Cash, u \in BOOLEAN,
            h \in {<<v>> : v \in Fund("VNQ")}
                  \cup {<<v, k>> : v \in Fund("VNQ"), k \in Cash}}

InitExecute == Init /\ accounts \in ExecutePortfolios

NextExecute ==
    \/ Next
    \/ Execute
    \/ ExecuteReturned
    \/ ExecuteOnReturned

SpecExecute == InitExecute /\ [][NextExecute]_vars

-----------------------------------------------------------------------------
(* account.py: the holdings of an Account object.  A list of Investment     *)
(* objects is an entry of lists and is known by its index; _holdings is the *)
(* index of the list the account holds.  List 1 is the one __init__ filled; *)
(* the caller holds a reference to every other list.                         *)

MaxLists == 3

(* Account.cash *)
cash(holdings) ==
    RSum([i \in 1..Len(holdings) |-> InvestmentValue(holdings[i])],
         {i \in 1..Len(holdings) : holdings[i].asset_class = CASH})

(* The lists the caller has a reference to. *)
CallerLists == 2..Len(lists)

(* holdings = accnt.holdings: copy.deepcopy makes a new list of new         *)
(* Investment objects.                                                       *)
GetHoldings ==
    /\ Len(lists) < MaxLists
    /\ lists' = Append(lists, lists[_holdings])
    /\ ret' = Call("holdings", <<>>, Len(lists) + 1)
    /\ UNCHANGED <<self, executions, _holdings>>

(* accnt.holdings = holdings, for a list the caller holds: the reference is *)
(* stored.                                                                   *)
SetHoldings ==
    /\ \E holdings \in CallerLists :
          /\ _holdings' = holdings
          /\ ret' = Call("holdings.setter", holdings, None)
    /\ UNCHANGED <<self, executions, lists>>

(* holding.num_shares = num_shares, for a holding of a list the caller      *)
(* holds.                                                                    *)
SetNumShares ==
    /\ \E holdings \in CallerLists :
          \E holding \in 1..Len(lists[holdings]), num_shares \in FundShareCounts :
             /\ lists' = [lists EXCEPT ![holdings][holding].num_shares = num_shares]
             /\ ret' = Call("num_shares.setter",
                            [holdings |-> holdings, holding |-> holding,
                             num_shares |-> num_shares], None)
    /\ UNCHANGED <<self, executions, _holdings>>

GetCash ==
    /\ ret' = Call("cash", <<>>, cash(lists[_holdings]))
    /\ UNCHANGED <<self, executions, account>>

(* An Account object of the test portfolio, as its __init__ leaves it. *)
InitAccount ==
    /\ accounts = TestPortfolio
    /\ df = Portfolio(accounts).df
    /\ _allocation = Portfolio(accounts)._allocation
    /\ _net_value = Portfolio(accounts)._net_value
    /\ executions = 0
    /\ ret = NoCall
    /\ _holdings = 1
    /\ lists \in {<<accounts[k].holdings>> : k \in 1..Len(accounts)}

NextAccount ==
    \/ GetHoldings
    \/ SetHoldings
    \/ SetNumShares
    \/ GetCash

SpecAccount == InitAccount /\ [][NextAccount]_vars


-----------------------------------------------------------------------------
(* Properties *)

AccountNames == {accounts[k].name : k \in 1..Len(accounts)}

TaxableNames == {accounts[k].name : k \in {k \in 1..Len(accounts) : accounts[k].is_taxable}}

AccountsInTable == {df[i].account_name : i \in Rows(df)}

Optimized == ret.op \in {"allocate_cash", "tune"}

Succeeded == Optimized /\ ret.out.error = ""

(* C1: for every holdings table _get_linear_constraint returns a matrix     *)
(* with exactly one row per account present in the table, as many rows as   *)
(* entries in the zero bound vector, the row of an account holding the      *)
(* share price of row i in each column i of that account and 0 elsewhere.   *)
C1_OneConstraintRowPerAccount ==
    ret.op = "_get_linear_constraint" =>
        /\ ret.out.error = ""
        /\ Len(ret.out.value.coefficients) = Cardinality(AccountsInTable)
        /\ Len(ret.out.value.bound) = Len(ret.out.value.coefficients)
        /\ \A a \in 1..Len(ret.out.value.bound) : ret.out.value.bound[a] = R(0)
        /\ \A name \in AccountsInTable :
              \E a \in 1..Len(ret.out.value.coefficients) :
                  ret.out.value.coefficients[a] =
                      [i \in Rows(df) |-> IF df[i].account_name = name
                                          THEN df[i].share_price ELSE R(0)]

TestTransactions ==
    <<Transaction("Fidelity", "ACME 401(K) SAVINGS PLAN",
                  "Small Cap Value Fund Class Institutional", R(500)),
      Transaction("Fidelity", "ACME 401(K) SAVINGS PLAN", "Money Market", R(-5000))>>

InBounds(x, bnds) ==
    \A i \in 1..Len(x) : RLeq(bnds[i][1].q, x[i]) /\ RLeq(x[i], bnds[i][2].q)

CashNeutral(x) ==
    \A name \in AccountsInTable :
        RSum([i \in Rows(df) |-> RMul(df[i].share_price, x[i])],
             RowsOfAccount(df, name)) = R(0)

(* C2: when allocate_cash returns, the trade vector behind its result lies  *)
(* within the bounds and nets to zero in every account; on the portfolio    *)
(* and target of the tests the result is exactly the purchase of 500        *)
(* Small-Cap shares and the sale of the 5000 cash shares, both in the       *)
(* taxable account.                                                          *)
C2_AllocateCashTestScenario ==
    (ret.op = "allocate_cash" /\ ret.out.error = "") =>
        /\ InBounds(ret.out.solution.x, ret.out.bnds)
        /\ CashNeutral(ret.out.solution.x)
        /\ (accounts = TestPortfolio /\ ret.arg = TestTarget)
              => ret.out.result = TestTransactions

C2_Witness ==
    /\ accounts = TestPortfolio
    /\ ret.op = "allocate_cash"
    /\ ret.arg = TestTarget
    /\ ret.out.error = ""
    /\ Len(ret.out.result) = 2

(* C3: no transaction returned by allocate_cash names a non-taxable         *)
(* account; every row of a non-taxable account is bounded by (0, _JITTER),  *)
(* which lies below the materiality threshold.                               *)
C3_AllocateCashLeavesNonTaxable ==
    ret.op = "allocate_cash" =>
        /\ \A i \in Rows(df) :
              df[i].account_name \notin TaxableNames =>
                  /\ ret.out.bnds[i] = <<JNum(R(0), 0), _JITTER>>
                  /\ JLt(ret.out.bnds[i][2], JNum(Materiality, 0))
        /\ \A k \in 1..Len(ret.out.result) :
              ret.out.result[k].account_name \in TaxableNames

C3_Witness ==
    /\ ret.op = "allocate_cash"
    /\ ret.out.error = ""
    /\ ret.out.result # <<>>
    /\ \E i \in Rows(df) :
          /\ df[i].account_name \notin TaxableNames
          /\ df[i].num_shares # R(0)
    /\ \E k \in 1..Len(accounts) :
          ~accounts[k].is_taxable /\ Len(accounts[k].holdings) = 2

TestTuneTransactions ==
    <<Transaction("Vanguard", "INDIVIDUAL IRA",
                  "Small Cap Value Fund Class Institutional", R(-1000)),
      Transaction("Vanguard", "INDIVIDUAL IRA",
                  "Vanguard Real Estate Index Fund", R(1000))>>

NonTaxableHaveAtMostOneHolding ==
    \A k \in 1..Len(accounts) :
        ~accounts[k].is_taxable => Len(accounts[k].holdings) <= 1

(* C4: on the single non-taxable account of the tests tune returns exactly  *)
(* the sale of 1000 Small-Cap and the purchase of 1000 Real-Estate shares,  *)
(* which puts the allocation on the target; when every non-taxable account  *)
(* has at most one holding, what tune does is something allocate_cash does  *)
(* on the same portfolio and target.                                         *)
C4_TuneRebalancesNonTaxable ==
    ret.op = "tune" =>
        /\ (accounts = TestTunePortfolio /\ ret.arg = TestTarget /\ ret.out.error = "")
              => /\ ret.out.result = TestTuneTransactions
                 /\ _objective_fn(df, ret.arg, ret.out.solution.x) = R(0)
        /\ NonTaxableHaveAtMostOneHolding
              => ret.out \in allocate_cash(accounts, df, ret.arg)

C4_Witness ==
    /\ accounts = TestTunePortfolio
    /\ ret.op = "tune"
    /\ ret.arg = TestTarget
    /\ ret.out.error = ""
    /\ Len(ret.out.result) = 2


Listed(i) == InList(df[i].account_name, ret.arg.accounts)

CashRows(name) == {i \in RowsOfAccount(df, name) : df[i].asset_class = CASH}

NonCashRows(name) == {i \in RowsOfAccount(df, name) : df[i].asset_class # CASH}

TotalCash(name) == RSum(Values(df), CashRows(name))

(* The largest-by-value non-cash holdings of an account. *)
Largest(name) ==
    {i \in NonCashRows(name) :
        \A k \in NonCashRows(name) : RLeq(df[k].value, df[i].value)}

(* C5: CashAllocationStrategy.initial_allocation returns a vector with one  *)
(* entry per row: in each listed account with cash C > 0, C / share price   *)
(* for one largest non-cash holding and minus its value for every cash      *)
(* holding; 0 everywhere else.                                               *)
C5_CashInitialAllocation ==
    (ret.op = "initial_allocation" /\ ret.arg.strategy = "CashAllocationStrategy") =>
        /\ ret.out.error = ""
        /\ DOMAIN ret.out.value = Rows(df)
        /\ \A name \in AccountsInTable :
              IF InList(name, ret.arg.accounts) /\ RLt(R(0), TotalCash(name))
              THEN /\ \A i \in CashRows(name) : ret.out.value[i] = RNeg(df[i].value)
                   /\ Largest(name) # {} =>
                        \E m \in Largest(name) :
                           /\ ret.out.value[m] = RDiv(TotalCash(name), df[m].share_price)
                           /\ \A i \in NonCashRows(name) \ {m} : ret.out.value[i] = R(0)
              ELSE \A i \in RowsOfAccount(df, name) : ret.out.value[i] = R(0)

(* C6: CashAllocationStrategy.bounds gives a cash row of a listed account   *)
(* (-value, -value + _JITTER) and a non-cash row (0, C / share_price), C    *)
(* the total cash value of the row's account.                                *)
C6_CashBounds ==
    (ret.op = "bounds" /\ ret.arg.strategy = "CashAllocationStrategy") =>
        \A i \in Rows(df) :
            Listed(i) =>
                IF df[i].asset_class = CASH
                THEN /\ ret.out[i][1] = JNum(RNeg(df[i].value), 0)
                     /\ ret.out[i][2] = JNum(RNeg(df[i].value), 1)
                ELSE /\ ret.out[i][1] = JNum(R(0), 0)
                     /\ ret.out[i][2] =
                           JNum(RDiv(TotalCash(df[i].account_name), df[i].share_price), 0)

C6_Witness ==
    /\ ret.op = "bounds"
    /\ ret.arg.strategy = "CashAllocationStrategy"
    /\ \E i, k \in Rows(df) :
          /\ Listed(i) /\ df[i].asset_class = CASH /\ df[i].value # R(0)
          /\ df[k].account_name = df[i].account_name
          /\ df[k].asset_class # CASH
          /\ ret.out[k][2].q = R(1)

(* C7: both strategies' bounds give (0, _JITTER) to every row whose account *)
(* is not among the account names passed.                                    *)
C7_UnlistedRowsGetJitterInterval ==
    ret.op = "bounds" =>
        \A i \in Rows(df) : ~Listed(i) => ret.out[i] = <<JNum(R(0), 0), _JITTER>>

AccountValue(name) == RSum(Values(df), RowsOfAccount(df, name))

PartitionNames(flag) ==
    LET part == SelectSeq(accounts, LAMBDA a : a.is_taxable = flag)
    IN  [k \in 1..Len(part) |-> part[k].name]

StrategyFor(flag) == IF flag THEN ret.arg.taxable ELSE ret.arg.non_taxable

Invoked(flag) == StrategyFor(flag) # None /\ PartitionNames(flag) # <<>>

IsTaxableRow(i) == df[i].account_name \in TaxableNames

(* C9: Context.get_initial_allocation and get_allocation_bounds return one  *)
(* entry per row; the entry of row i is entry i of what the strategy of the *)
(* row's partition returns for that partition's account names, or the       *)
(* default (0, resp. (0, _JITTER)) when that strategy is absent; the call   *)
(* raises only if a strategy so invoked raises.                              *)
C9_ContextCombinesByPartition ==
    /\ ret.op = "get_initial_allocation" =>
          LET part == [flag \in BOOLEAN |->
                          IF Invoked(flag)
                          THEN initial_allocation(StrategyFor(flag), df, PartitionNames(flag))
                          ELSE Return(Zeros(df))]
          IN  IF \E flag \in BOOLEAN : part[flag].error # ""
              THEN ret.out.error # ""
              ELSE /\ ret.out.error = ""
                   /\ DOMAIN ret.out.value = Rows(df)
                   /\ \A i \in Rows(df) :
                         /\ ret.out.value[i] = part[IsTaxableRow(i)].value[i]
                         /\ StrategyFor(IsTaxableRow(i)) = None => ret.out.value[i] = R(0)
    /\ ret.op = "get_allocation_bounds" =>
          /\ DOMAIN ret.out = Rows(df)
          /\ \A i \in Rows(df) :
                IF StrategyFor(IsTaxableRow(i)) = None
                THEN ret.out[i] = <<JNum(R(0), 0), _JITTER>>
                ELSE ret.out[i] = bounds(StrategyFor(IsTaxableRow(i)), df,
                                         PartitionNames(IsTaxableRow(i)))[i]

C9_Witness ==
    /\ ret.op = "get_allocation_bounds"
    /\ ret.arg = Context("CashAllocationStrategy", None)
    /\ \E i, k \in Rows(df) :
          /\ IsTaxableRow(i) /\ ret.out[i][2].q = R(1)
          /\ ~IsTaxableRow(k) /\ df[k].value # R(0)
          /\ i > k

MaterialRows(x) == {i \in 1..Len(x) : RLt(<<1, 100>>, RAbs(x[i]))}

Rank(x, i) == Cardinality({k \in MaterialRows(x) : k <= i})

IsRoundedTo2(r, x) ==
    /\ RMul(r, R(100))[2] = 1
    /\ RLeq(RAbs(RSub(r, x)), <<1, 200>>)

(* C10: on success the result lists, in row order, one Transaction for each *)
(* row i with |x_i| > 0.01 and none for the other rows; it carries the      *)
(* institution, account name and fund name of row i and x_i rounded to 2    *)
(* decimals: 0.009 gives none, 0.011 gives one of 0.01.                     *)
C10_TransactionsOfMaterialDeltas ==
    Succeeded =>
        LET x == ret.out.solution.x
        IN  /\ Len(x) = Len(df)
            /\ Len(ret.out.result) = Cardinality(MaterialRows(x))
            /\ \A i \in MaterialRows(x) :
                  LET t == ret.out.result[Rank(x, i)]
                  IN  /\ t.institution = df[i].institution
                      /\ t.account_name = df[i].account_name
                      /\ t.fund_name = df[i].fund_name
                      /\ IsRoundedTo2(t.num_shares, x[i])
                      /\ x[i] = <<11, 1000>> => t.num_shares = <<1, 100>>
            /\ \A i \in 1..Len(x) :
                  x[i] = <<9, 1000>> =>
                      \A k \in 1..Len(ret.out.result) :
                          ~(/\ ret.out.result[k].account_name = df[i].account_name
                            /\ ret.out.result[k].fund_name = df[i].fund_name)

C10_Witness ==
    /\ Succeeded
    /\ \E i, k \in Rows(df) :
          /\ ret.out.solution.x[i] = <<9, 1000>>
          /\ ret.out.solution.x[k] = <<11, 1000>>
    /\ Len(ret.out.result) = 3


SolverRan(call) ==
    /\ call.op \in {"allocate_cash", "tune"}
    /\ call.out.x0.error = ""
    /\ call.out.cons.error = ""

(* C11: a call of allocate_cash or tune in which the solver reports failure *)
(* ends with ResultError carrying the solver's message, whatever the one    *)
(* solver run left in x; it returns no transaction list, and the accounts,  *)
(* the holdings table and the aggregates are what they were before.         *)
C11_SolverFailureRaisesResultError ==
    [][(ret' # ret /\ SolverRan(ret') /\ ~ret'.out.solution.success) =>
          /\ ret'.out.error =
                "ResultError: Cash allocation failed: " \o ret'.out.solution.message
          /\ ret'.out.solution.message # ""
          /\ ret'.out.result = <<>>
          /\ UNCHANGED <<accounts, df, _allocation, _net_value>>]_vars

C11_Witness ==
    /\ SolverRan(ret)
    /\ ret.op = "tune"
    /\ ~ret.out.solution.success
    /\ ret.out.error # ""
    /\ \E x \in Minimisers(df, ret.arg, ret.out.bnds, ret.out.cons.value) :
          Transactions(df, x) # <<>>

(* The current percentage allocation equals the target exactly: no asset    *)
(* class of either differs.                                                  *)
MatchesTarget(table, target) ==
    \A asset_class \in DOMAIN _get_diff_from_target(table, target) :
        _get_diff_from_target(table, target)[asset_class] = R(0)

(* The solver did not report failure in the call. *)
NoSolverFailure(call) == ~(SolverRan(call) /\ ~call.out.solution.success)

TaxableCashRows ==
    {i \in Rows(df) : IsTaxableRow(i) /\ df[i].asset_class = CASH /\ df[i].value # R(0)}

(* C12, as stated: on a portfolio whose percentage allocation equals the    *)
(* target exactly, allocate_cash and tune return an empty transaction list  *)
(* (unless the solver reports failure).                                      *)
C12_Idempotence ==
    (Optimized /\ MatchesTarget(df, ret.arg) /\ NoSolverFailure(ret)) =>
        /\ ret.out.error = ""
        /\ ret.out.result = <<>>

(* C12, amended: the same, for the portfolios in which no taxable account   *)
(* holds cash; the cash of a taxable account is always sold in full.        *)
C12_IdempotenceWithoutTaxableCash ==
    (Optimized /\ MatchesTarget(df, ret.arg) /\ NoSolverFailure(ret)
       /\ TaxableCashRows = {}) =>
        /\ ret.out.error = ""
        /\ ret.out.result = <<>>

(* The transactions of the tests were executed in place and the portfolio,  *)
(* now on target, is optimised again.                                        *)
C12_Witness ==
    /\ executions = 1
    /\ ret.op = "allocate_cash"
    /\ ret.arg = TestTarget
    /\ ret.out.error = ""
    /\ ret.out.result = <<>>
    /\ MatchesTarget(df, ret.arg)
    /\ TaxableCashRows = {}
    /\ Len(df) = 4
    /\ df[1].num_shares = R(1000)
    /\ df[3].num_shares = R(0)

(* a <= b on floats: false when either is NaN. *)
FloatLeq(a, b) == IF a[2] = 0 \/ b[2] = 0 THEN a = Inf /\ b = Inf ELSE RLeq(a, b)

(* execute(inplace=False) was called on the transactions that allocate_cash *)
(* or tune returned for this portfolio.                                      *)
RoundTrip ==
    /\ ret.op = "execute"
    /\ ~ret.arg.inplace
    /\ ret.arg.mutations = 0
    /\ ret.arg.origin.op \in {"allocate_cash", "tune"}

(* Every entry of the trade vector is 0 or becomes a transaction with       *)
(* exactly that delta.                                                       *)
CarriedExactly(x) ==
    \A i \in 1..Len(x) : x[i] = R(0) \/ (IsMaterial(x[i]) /\ round(x[i]) = x[i])

ExecutedOnce == ret.op = "execute" /\ ret.arg.mutations = 0

(* The transactions of list t written for holding h of account a. *)
Matching(t, a, h) ==
    {k \in 1..Len(t) : t[k].account_name = a.name /\ t[k].fund_name = h.name}

(* C14: after execute(transactions), a holding that transactions match has  *)
(* its previous num_shares plus the delta of the matching transaction (the  *)
(* last one in list order when several match), a holding that none matches  *)
(* keeps its num_shares, and a transaction that matches no holding neither  *)
(* adds nor changes a holding: the accounts and holdings are otherwise the  *)
(* same, and a portfolio is returned.                                        *)
C14_ExecuteAddsMatchingDelta ==
    ExecutedOnce =>
        LET old == ret.arg.before.accounts
            new == ret.out.portfolio.accounts
            t   == ret.arg.transactions
        IN  /\ Len(new) = Len(old)
            /\ \A a \in 1..Len(old) :
                  /\ Len(new[a].holdings) = Len(old[a].holdings)
                  /\ [new[a] EXCEPT !.holdings = <<>>] = [old[a] EXCEPT !.holdings = <<>>]
                  /\ \A h \in 1..Len(old[a].holdings) :
                        LET was == old[a].holdings[h]
                            now == new[a].holdings[h]
                            m   == Matching(t, old[a], was)
                        IN  /\ [now EXCEPT !.num_shares = R(0)] = [was EXCEPT !.num_shares = R(0)]
                            /\ m = {} => now.num_shares = was.num_shares
                            /\ m # {} =>
                                  \E k \in m :
                                     /\ \A j \in m : j <= k
                                     /\ now.num_shares = RAdd(was.num_shares, t[k].num_shares)

(* The transactions of the execute tests were executed in place on the test *)
(* portfolio: one matched, one matching no holding, two for the same key.   *)
C14_Witness ==
    /\ ExecutedOnce
    /\ ret.arg.inplace
    /\ ret.arg.before.accounts = TestPortfolio
    /\ ret.arg.origin.op = "caller"
    /\ \E k \in 1..Len(ret.arg.transactions) :
          \A a \in 1..Len(TestPortfolio) : \A h \in 1..Len(TestPortfolio[a].holdings) :
             k \notin Matching(ret.arg.transactions, TestPortfolio[a], TestPortfolio[a].holdings[h])
    /\ \E a \in 1..Len(accounts) : \E h \in 1..Len(accounts[a].holdings) :
          /\ Matching(ret.arg.transactions, accounts[a], accounts[a].holdings[h]) = {}
          /\ accounts[a].holdings[h].num_shares # R(0)
    /\ \E a \in 1..Len(accounts) : \E h \in 1..Len(accounts[a].holdings) :
          /\ Matching(ret.arg.transactions, accounts[a], accounts[a].holdings[h]) # {}
          /\ accounts[a].holdings[h].num_shares # TestPortfolio[a].holdings[h].num_shares

(* C15: after execute(transactions, inplace=False), and after a later       *)
(* execution in place on the portfolio it returned, the original's account  *)
(* holdings, holdings table, per-class allocation and net value are what    *)
(* they were before the call, and the returned portfolio's account list is  *)
(* not the original's.                                                       *)
C15_NotInPlaceLeavesOriginalUntouched ==
    (ret.op = "execute" /\ ~ret.arg.inplace) =>
        /\ Self = ret.arg.before
        /\ ~ret.out.is_self

(* The returned portfolio was changed by the call and again afterwards. *)
C15_Witness ==
    /\ ret.op = "execute"
    /\ ~ret.arg.inplace
    /\ ret.arg.mutations = 1
    /\ Self = ret.arg.before
    /\ ret.out.portfolio.accounts # accounts
    /\ ret.out.portfolio.accounts # execute(accounts, ret.arg.transactions, FALSE).account_list
    /\ ret.out.portfolio.df # df
    /\ ret.out.portfolio._net_value # _net_value

(* The holdings of the accounts accts, as <<account, holding>> positions,   *)
(* and the row of the table in which a holding is listed: accounts in list  *)
(* order, each account's holdings in their order.                            *)
HoldingsOf(accts) ==
    UNION {{<<a, h>> : h \in 1..Len(accts[a].holdings)} : a \in 1..Len(accts)}

RECURSIVE HoldingsBefore(_, _)
HoldingsBefore(accts, a) ==
    IF a = 1 THEN 0 ELSE HoldingsBefore(accts, a - 1) + Len(accts[a - 1].holdings)

(* The table, the per-class totals and the net value of portfolio p are     *)
(* those of the current holdings of its accounts.                            *)
FromHoldings(p) ==
    LET accts == p.accounts
        held  == HoldingsOf(accts)
        worth == [pr \in held |->
                     RMul(accts[pr[1]].holdings[pr[2]].num_shares,
                          accts[pr[1]].holdings[pr[2]].share_price)]
        of(c) == {pr \in held : accts[pr[1]].holdings[pr[2]].asset_class = c}
    IN  /\ Len(p.df) = HoldingsBefore(accts, Len(accts) + 1)
        /\ \A pr \in held :
              LET row == p.df[HoldingsBefore(accts, pr[1]) + pr[2]]
                  holding == accts[pr[1]].holdings[pr[2]]
              IN  /\ row.account_name = accts[pr[1]].name
                  /\ row.institution = accts[pr[1]].institution
                  /\ row.fund_name = holding.name
                  /\ row.ticker_symbol = holding.ticker_symbol
                  /\ row.asset_class = holding.asset_class
                  /\ row.share_price = holding.share_price
                  /\ row.num_shares = holding.num_shares
                  /\ row.value = worth[pr]
        /\ DOMAIN p._allocation = {accts[pr[1]].holdings[pr[2]].asset_class : pr \in held}
        /\ \A c \in DOMAIN p._allocation : p._allocation[c] = RSum(worth, of(c))
        /\ p._net_value = RSum(worth, held)

(* C16: whatever executions have been made, in place or not, the table, the *)
(* per-class totals and the net value of the portfolio, and of a portfolio  *)
(* that execute returned, are those of its accounts' current holdings; and  *)
(* the table after an execution in place is the table of the portfolio that *)
(* execute(inplace=False) returns for the same transactions.                *)
C16_AggregatesFollowHoldings ==
    /\ FromHoldings(Self)
    /\ ret.op = "execute" => FromHoldings(ret.out.portfolio)
    /\ (ExecutedOnce /\ ret.arg.inplace) =>
          df = Portfolio(execute(ret.arg.before.accounts,
                                 ret.arg.transactions, FALSE).account_list).df

(* An execution in place changed the table. *)
C16_Witness ==
    /\ ExecutedOnce
    /\ ret.arg.inplace
    /\ executions = 1
    /\ df # ret.arg.before.df
    /\ _net_value # ret.arg.before._net_value
    /\ _allocation # ret.arg.before._allocation
    /\ FromHoldings(Self)

(* C17: the account's holdings, and so its cash, change only in a call of   *)
(* the holdings setter; in particular a change made to a list the getter    *)
(* returned, or to the num_shares of one of its Investments, leaves them    *)
(* as they are.                                                              *)
C17_HoldingsChangeOnlyThroughSetter ==
    [][(lists'[_holdings'] # lists[_holdings]
          \/ cash(lists'[_holdings']) # cash(lists[_holdings]))
       => ret'.op = "holdings.setter"]_vars

(* The asset classes held, the value held in one, and its share of the net  *)
(* value in percent (the net value being non-zero).                          *)
HeldClasses == {df[i].asset_class : i \in Rows(df)}

HeldValue(c) ==
    RSum([i \in Rows(df) |-> RMul(df[i].num_shares, df[i].share_price)],
         {i \in Rows(df) : df[i].asset_class = c})

HeldPercentage(c) == RMul(R(100), RDiv(HeldValue(c), _net_value))

C19_PercentageAllocation ==
    ret.op = "get_percentage_allocation" =>
        /\ DOMAIN ret.out = HeldClasses
        /\ \A c \in HeldClasses :
              /\ ret.out[c].value = HeldValue(c)
              /\ ret.out[c].fraction = FDiv(HeldValue(c), _net_value)
              /\ ret.out[c].percentage =
                    IF _net_value = R(0) THEN ret.out[c].fraction
                    ELSE HeldPercentage(c)
        /\ RLt(R(0), _net_value) =>
              /\ RSum([c \in HeldClasses |-> ret.out[c].value], HeldClasses) = _net_value
              /\ RSum([c \in HeldClasses |-> ret.out[c].percentage], HeldClasses) = R(100)

(* The case of test_get_percentage_allocation. *)
C19_Witness ==
    /\ ret.op = "get_percentage_allocation"
    /\ accounts = TestPortfolio
    /\ _net_value = R(40000)
    /\ ret.out["CORE_US"] = [value |-> R(10000), fraction |-> <<1, 4>>, percentage |-> R(25)]
    /\ ret.out[CASH] = [value |-> R(5000), fraction |-> <<1, 8>>, percentage |-> <<25, 2>>]
    /\ ret.out["SMALL_CAP"].percentage = <<25, 2>>
    /\ ret.out["REAL_ESTATE"].percentage = R(50)

(* The accounts that hold nothing, or are not taxable and hold one thing. *)
Degenerate ==
    {k \in 1..Len(accounts) :
        \/ Len(accounts[k].holdings) = 0
        \/ ~accounts[k].is_taxable /\ Len(accounts[k].holdings) = 1}

(* C20: on a portfolio with an account that has no holdings (every account  *)
(* may be such) or a non-taxable account with exactly one holding,          *)
(* allocate_cash and tune raise nothing (a failure the solver reports set   *)
(* aside) and return no transaction for that account.                        *)
C20_DegenerateAccountsAreNotAnError ==
    (Optimized /\ Degenerate # {} /\ NoSolverFailure(ret)) =>
        /\ ret.out.error = ""
        /\ \A k \in Degenerate : \A t \in 1..Len(ret.out.result) :
              ret.out.result[t].account_name # accounts[k].name

(* The k-th element of a set of rows, in row order. *)
Nth(S, k) == CHOOSE i \in S : Cardinality({j \in S : j < i}) = k - 1

(* The position of the account of row i among the accounts that have rows. *)
AccountRank(i) == Cardinality({df[j].account_name : j \in 1..i})

(* C21: in a call of allocate_cash or tune, the bounds vector, the initial  *)
(* guess and every row of the constraint matrix (each as far as the call    *)
(* gets to compute it) have one entry per row of the holdings table, and    *)
(* entry i is about row i: the table lists the holdings account by account  *)
(* in account order and in holding order within the account, the interval   *)
(* of a taxable cash row starts at minus that row's value, the initial      *)
(* guess sells exactly the cash rows it liquidates, column i of the         *)
(* constraint holds the price of row i in the row of its account and 0 in   *)
(* the others, and the transactions are those of the material x_i in row    *)
(* order, each naming the institution, account and fund of row i.           *)
C21_VectorsIndexedByTableRow ==
    Optimized =>
        /\ FromHoldings(Self)
        /\ Len(ret.out.bnds) = Len(df)
        /\ \A i \in Rows(df) :
              (IsTaxableRow(i) /\ df[i].asset_class = CASH) =>
                  ret.out.bnds[i][1] = JNum(RNeg(df[i].value), 0)
        /\ ret.out.x0.error = "" =>
              /\ Len(ret.out.x0.value) = Len(df)
              /\ \A i \in Rows(df) :
                    RLt(ret.out.x0.value[i], R(0)) =>
                        /\ IsTaxableRow(i)
                        /\ df[i].asset_class = CASH
                        /\ ret.out.x0.value[i] = RNeg(df[i].value)
        /\ SolverRan(ret) =>
              \A a \in 1..Len(ret.out.cons.value.coefficients) :
                 /\ Len(ret.out.cons.value.coefficients[a]) = Len(df)
                 /\ \A i \in Rows(df) :
                       ret.out.cons.value.coefficients[a][i] =
                          IF AccountRank(i) = a THEN df[i].share_price ELSE R(0)
        /\ ret.out.error = "" =>
              LET x == ret.out.solution.x
              IN  /\ Len(x) = Len(df)
                  /\ Len(ret.out.result) = Cardinality(MaterialRows(x))
                  /\ \A k \in 1..Len(ret.out.result) :
                        LET i == Nth(MaterialRows(x), k)
                        IN  /\ ret.out.result[k].institution = df[i].institution
                            /\ ret.out.result[k].account_name = df[i].account_name
                            /\ ret.out.result[k].fund_name = df[i].fund_name
                            /\ ret.out.result[k].num_shares = round(x[i])

(* A successful call on a portfolio of two accounts that trades in the      *)
(* second account and not in the first row.                                  *)
C21_Witness ==
    /\ Optimized
    /\ ret.out.error = ""
    /\ Len(ret.out.result) >= 2
    /\ 1 \notin MaterialRows(ret.out.solution.x)
    /\ ret.out.result[1].account_name # df[1].account_name
    /\ ret.out.result[1].fund_name # ret.out.result[2].fund_name
    /\ Len(ret.out.cons.value.coefficients) = 2

(* C22: when several transactions of the list given to execute name the    *)
(* same account and fund, the holding gets the delta of the last of them    *)
(* in list order and nothing of the earlier ones: the result differs from   *)
(* the sum of the deltas whenever the earlier ones do not add up to 0.      *)
C22_LastTransactionWins ==
    ExecutedOnce =>
        \A a \in 1..Len(ret.arg.before.accounts) :
           \A h \in 1..Len(ret.arg.before.accounts[a].holdings) :
              LET t    == ret.arg.transactions
                  was  == ret.arg.before.accounts[a].holdings[h]
                  now  == ret.out.portfolio.accounts[a].holdings[h]
                  m    == Matching(t, ret.arg.before.accounts[a], was)
                  last == CHOOSE k \in m : \A j \in m : j <= k
                  deltas == [k \in 1..Len(t) |-> t[k].num_shares]
              IN  Cardinality(m) >= 2 =>
                     /\ now.num_shares = RAdd(was.num_shares, t[last].num_shares)
                     /\ RSum(deltas, m \ {last}) # R(0) =>
                           now.num_shares # RAdd(was.num_shares, RSum(deltas, m))

(* A holding named by two transactions with different deltas was executed. *)
C22_Witness ==
    /\ ExecutedOnce
    /\ \E a \in 1..Len(ret.arg.before.accounts) :
          \E h \in 1..Len(ret.arg.before.accounts[a].holdings) :
             LET t == ret.arg.transactions
                 m == Matching(t, ret.arg.before.accounts[a],
                               ret.arg.before.accounts[a].holdings[h])
             IN  /\ Cardinality(m) = 2
                 /\ \E j \in m, k \in m :
                       /\ j < k
                       /\ t[j].num_shares # t[k].num_shares
                       /\ t[j].num_shares # R(0)
                       /\ ret.out.portfolio.accounts[a].holdings[h].num_shares =
                             RAdd(ret.arg.before.accounts[a].holdings[h].num_shares,
                                  t[k].num_shares)

(* The candidate of a trade vector x: the value held in class c, the net    *)
(* value, and the classes of the candidate or of the target.                 *)
CandidateValue(x, c) ==
    RSum([i \in Rows(df) |-> RMul(RAdd(df[i].num_shares, x[i]), df[i].share_price)],
         {i \in Rows(df) : df[i].asset_class = c})

CandidateNet(x) ==
    RSum([i \in Rows(df) |-> RMul(RAdd(df[i].num_shares, x[i]), df[i].share_price)],
         Rows(df))

CandidateGap(x, target, c) ==
    RSub(IF c \in DOMAIN target THEN target[c] ELSE R(0),
         IF c \in HeldClasses
         THEN RMul(R(100), RDiv(CandidateValue(x, c), CandidateNet(x)))
         ELSE R(0))

(* C23: for a candidate whose net value is not zero, the objective of x is  *)
(* the root of the mean (here: the mean, the model keeping the square of    *)
(* the RMSE), over the asset classes of the target or of the candidate, of  *)
(* the squared difference between the target percentage and the percentage  *)
(* of the candidate holdings shares_i + x_i valued at (shares_i + x_i) *     *)
(* price_i; and it is 0 exactly when every such difference is 0.             *)
C23_ObjectiveIsRmseOfCandidate ==
    (ret.op = "_objective_fn" /\ CandidateNet(ret.arg.x) # R(0)) =>
        LET x == ret.arg.x
            target == ret.arg.target
            classes == (DOMAIN target) \cup HeldClasses
            squares == [c \in classes |->
                           RMul(CandidateGap(x, target, c), CandidateGap(x, target, c))]
        IN  /\ ret.out = RDiv(RSum(squares, classes), R(Cardinality(classes)))
            /\ ret.out = R(0) <=> \A c \in classes : CandidateGap(x, target, c) = R(0)

(* A trade that brings the portfolio exactly onto the target. *)
C23_Witness ==
    /\ ret.op = "_objective_fn"
    /\ ret.arg.x # Zeros(df)
    /\ CandidateNet(ret.arg.x) # R(0)
    /\ ret.out = R(0)
    /\ _get_rmse(df, ret.arg.target) # R(0)

(* The Contexts of allocate_cash and tune. *)
UsedContexts == {AllocateCashContext, TuneContext}

(* C24: every interval that Context.get_allocation_bounds returns, for the  *)
(* Contexts of allocate_cash and tune and in an allocate_cash or tune call, *)
(* has its lower end strictly below its upper end.                           *)
C24_BoundsAreNonDegenerate ==
    /\ (ret.op = "get_allocation_bounds" /\ ret.arg \in UsedContexts) =>
          \A i \in Rows(df) : JLt(ret.out[i][1], ret.out[i][2])
    /\ Optimized =>
          \A i \in Rows(df) : JLt(ret.out.bnds[i][1], ret.out.bnds[i][2])

(* a <= b for interval ends. *)
JLeq(a, b) == a = b \/ JLt(a, b)

(* Every share count of the table is non-negative, every price positive. *)
WellFormedTable ==
    \A i \in Rows(df) : RLeq(R(0), df[i].num_shares) /\ RLt(R(0), df[i].share_price)

(* C25: in a call of allocate_cash or tune on a table with non-negative     *)
(* share counts and positive prices, the initial guess of each row, when    *)
(* one is returned, lies inside the row's interval.                          *)
C25_InitialGuessWithinBounds ==
    (Optimized /\ WellFormedTable /\ ret.out.x0.error = "") =>
        \A i \in Rows(df) :
            /\ JLeq(ret.out.bnds[i][1], JNum(ret.out.x0.value[i], 0))
            /\ JLeq(JNum(ret.out.x0.value[i], 0), ret.out.bnds[i][2])

(* tune on a portfolio with a taxable account whose cash is moved into a    *)
(* fund by the initial guess, and a non-taxable account with two holdings.  *)
C25_Witness ==
    /\ ret.op = "tune"
    /\ WellFormedTable
    /\ ret.out.x0.error = ""
    /\ \E i, k, n \in Rows(df) :
          /\ RLt(ret.out.x0.value[i], R(0))
          /\ RLt(R(0), ret.out.x0.value[k])
          /\ ret.out.bnds[k][2] = JNum(ret.out.x0.value[k], 0)
          /\ ~IsTaxableRow(n)
          /\ RLt(ret.out.bnds[n][1].q, R(0))

(* C26: in a call of allocate_cash or tune on a table with non-negative     *)
(* share counts and positive prices, the lower end of every row's interval  *)
(* is at least minus the row's share count, and executing the transactions  *)
(* returned leaves no holding with a negative share count.                  *)
C26_NoHoldingIsOversold ==
    (Optimized /\ WellFormedTable) =>
        /\ \A i \in Rows(df) : RLeq(RNeg(df[i].num_shares), ret.out.bnds[i][1].q)
        /\ ret.out.error = "" =>
              LET after == execute(accounts, ret.out.result, FALSE).account_list
              IN  \A a \in 1..Len(after) : \A h \in 1..Len(after[a].holdings) :
                     RLeq(R(0), after[a].holdings[h].num_shares)

(* The value of account k of a list of accounts. *)
ValueOfAccount(accts, k) ==
    RSum([h \in 1..Len(accts[k].holdings) |->
             RMul(accts[k].holdings[h].num_shares, accts[k].holdings[h].share_price)],
         1..Len(accts[k].holdings))

(* share_price * delta summed over the transactions of list t that name a   *)
(* holding of account k.                                                     *)
Proceeds(t, accts, k) ==
    RSum([h \in 1..Len(accts[k].holdings) |->
             RSum([j \in 1..Len(t) |-> RMul(accts[k].holdings[h].share_price, t[j].num_shares)],
                  Matching(t, accts[k], accts[k].holdings[h]))],
         1..Len(accts[k].holdings))

(* C27: the transactions that allocate_cash and tune return are cash        *)
(* neutral in each account (share_price * delta sums to 0 over the          *)
(* account's transactions), so that executing them leaves the value of      *)
(* every account, and the net value, as they were.                           *)
C27_TransactionsAreCashNeutral ==
    Succeeded =>
        LET after == execute(accounts, ret.out.result, FALSE).account_list
        IN  /\ \A k \in 1..Len(accounts) :
                  /\ Proceeds(ret.out.result, accounts, k) = R(0)
                  /\ ValueOfAccount(after, k) = ValueOfAccount(accounts, k)
            /\ Portfolio(after)._net_value = _net_value

(* C28: of the transactions allocate_cash and tune return, one for a        *)
(* non-cash holding of a taxable account buys (its delta is positive) for   *)
(* at most the total cash value of the account, and one for a cash holding  *)
(* of a taxable account sells.                                               *)
C28_TaxableAccountsOnlyBuyWithTheirCash ==
    Succeeded =>
        \A k \in 1..Len(accounts) : \A h \in 1..Len(accounts[k].holdings) :
           \A j \in Matching(ret.out.result, accounts[k], accounts[k].holdings[h]) :
              accounts[k].is_taxable =>
                 IF accounts[k].holdings[h].asset_class = CASH
                 THEN RLt(ret.out.result[j].num_shares, R(0))
                 ELSE /\ RLt(R(0), ret.out.result[j].num_shares)
                      /\ RLeq(RMul(ret.out.result[j].num_shares,
                                   accounts[k].holdings[h].share_price),
                              cash(accounts[k].holdings))

(* The operations that only read the portfolio. *)
ReadingOperations ==
    {"allocate_cash", "tune", "get_allocation_by_asset_class",
     "get_allocation_by_institution", "get_percentage_allocation",
     "get_difference_from_target"}

(* C29: a call of allocate_cash, of tune or of a reporting operation leaves *)
(* the accounts' holdings, the holdings table, the per-class totals and the *)
(* net value as they were, whether it returns or raises.                     *)
C29_ReadingOperationsChangeNothing ==
    [][(ret' # ret /\ ret'.op \in ReadingOperations) =>
          /\ accounts' = accounts
          /\ df' = df
          /\ _allocation' = _allocation
          /\ _net_value' = _net_value]_vars

(* A successful optimisation that found trades, after an execution in place *)
(* that did change the portfolio: the table is still that of the holdings.  *)
C29_Witness ==
    /\ Succeeded
    /\ executions = 1
    /\ ret.out.result # <<>>
    /\ FromHoldings(Self)

(* C30: CashAllocationStrategy.initial_allocation returns a vector with one *)
(* entry per row for every table and list of account names, and so does the *)
(* initial guess inside allocate_cash and tune; for a listed account with   *)
(* positive cash and no non-cash holding the cash rows get minus their      *)
(* value.                                                                    *)
C30_CashInitialAllocationIsTotal ==
    /\ (ret.op = "initial_allocation" /\ ret.arg.strategy = "CashAllocationStrategy") =>
          /\ ret.out.error = ""
          /\ Len(ret.out.value) = Len(df)
          /\ \A name \in AccountsInTable :
                (InList(name, ret.arg.accounts) /\ RLt(R(0), TotalCash(name))
                    /\ NonCashRows(name) = {}) =>
                   \A i \in CashRows(name) : ret.out.value[i] = RNeg(df[i].value)
    /\ Optimized =>
          /\ ret.out.x0.error = ""
          /\ Len(ret.out.x0.value) = Len(df)

====
